---- MODULE Spec2Model ----
(***************************************************************************)
(* Model of the generated int-to-int hash table of libk                    *)
(* (src/include/libk/hashmap.h, GENERATE_HASHMAP(int, int)) together with  *)
(* the primitive capability functions of src/include/libk/types.h          *)
(* (GENERATE_FNS_FOR_PRIMITIVE(int)).                                      *)
(*                                                                         *)
(* types.h declares  int_equals(int* i1, int* i2)  and                     *)
(* copy_int(int* i, int* output), both of which dereference their          *)
(* arguments.  hashmap.h calls them as  copy_int(key, &entry.key),         *)
(* copy_int(value, &entry.value)  and  int_equals( *key, entry.key),       *)
(* i.e. it passes the int itself where the address of an int is expected.  *)
(* The compiled code therefore reads the machine word at the address whose *)
(* number is the key (or value).  That memory is not owned by the table;   *)
(* the model keeps it in the variable mem, chosen in Init and never        *)
(* written.  int_hash is called with a real address (&key, key), so the    *)
(* hash is the key itself, converted to uint32_t.                          *)
(*                                                                         *)
(* new_hashmap, hashmap_resize (libk/hashmap.c) and the vector             *)
(* (libk/vector.h) are not part of the available sources; they are         *)
(* modelled from the specification (sections 4.1 and 4.2).                 *)
(***************************************************************************)
EXTENDS Integers, Sequences, FiniteSets, TLC

\* ---------------------------------------------------------------- bounds
MaxAdds == 3          \* add calls per run of Spec
NumKeys == 2          \* distinct keys offered to add/get in Spec
MemWords == 36        \* machine words of foreign memory the keys may address
NegWords == 2         \* of which at the top of the address space (negative ints)
NegAdds == 3          \* add calls per run of SpecNeg
ConcAdds == 2         \* add calls per run of SpecConc, over both contexts
ScenarioKeys == 4     \* distinct keys of the capacity-4 scenario
ScenarioAdds == 5     \* add calls per run of SpecB
DefaultAdds == 98     \* add calls per run of SpecDefault

\* ------------------------------------------------------ program constants
DEFAULT_BUCKET_SIZE == 127
LOAD_FACTOR_NUM == 3
LOAD_FACTOR_DEN == 4
SIZEOF_INT == 4
HALF_WORD == 65536   \* 2^16: a uint32_t is two of these digits

\* ----------------------------------------------------------------- inputs
\* word-aligned addresses: reads of distinct aligned words are independent
\* the int -4 converted to a pointer is the address 2^32 - 4
Addr == {SIZEOF_INT * i : i \in (0 - NegWords)..(MemWords - 1)}
Keys == {SIZEOF_INT * i : i \in 0..(NumKeys - 1)}
Vals == {0, SIZEOF_INT}
KeysB == {SIZEOF_INT * i : i \in 0..(ScenarioKeys - 1)}
ValsB == {0}
KeysDefault == {SIZEOF_INT * 33}
ValsDefault == {0}
KeysNeg == {0 - SIZEOF_INT, SIZEOF_INT}
ValsNeg == {0}
KeysConc == {0, SIZEOF_INT}
ValsConc == {0}
InitCaps == {1, 3}

\* contents of the foreign memory: every word holds its own address (the one
\* layout under which the word at address k holds k), zero-filled memory,
\* and a layout where every word differs from its address
MemIdent == [a \in Addr |-> a]
MemZero == [a \in Addr |-> 0]
MemShift == [a \in Addr |-> (a + SIZEOF_INT) % (SIZEOF_INT * MemWords)]
Mems == {MemIdent, MemZero, MemShift}

VARIABLES
  mem,               \* foreign memory read through int-as-pointer arguments
  live,              \* TRUE from new_..._hashmap until delete_..._hashmap
  size,              \* hashmap->size
  capacity,          \* hashmap->capacity
  buckets,           \* hashmap->buckets : 0..capacity-1 -> vector or NULL
  found,             \* return value of the last get
  output,            \* *output of the caller of get
  log,               \* history: the (key, value) arguments of every add call
  resizes,           \* history: number of hashmap_resize calls
  keyDestroys,       \* history: delete_int calls per stored key copy
  valDestroys,       \* history: delete_int calls per stored value copy
  initial_capacity,  \* history: capacity given by new_hashmap
  allocs,            \* history: every resource allocated so far
  frees,             \* history: every release so far, in order
  thr,               \* the execution contexts that call into the table
  last               \* history: the last completed public operation

vars == <<mem, live, size, capacity, buckets, found, output, log, resizes,
          keyDestroys, valDestroys, initial_capacity, allocs, frees, thr,
          last>>

\* ------------------------------------------------- capability functions
\* the int read through a pointer holding the address a
Load(a) == mem[a]

\* int_hash(&key), int_hash(key) with key an int*: the pointee is the key.
\* The function returns uint32_t, so the int is converted modulo 2^32; the
\* 32-bit result is kept as its two 16-bit halves, hi * 2^16 + lo.
int_hash(i) ==
  LET lo == i % HALF_WORD
      hi == ((i - lo) \div HALF_WORD) % HALF_WORD
  IN [hi |-> hi, lo |-> lo]

\* hash % capacity on uint32_t operands (hashmap.h:114, 135)
uint32_mod(h, c) == ((h.hi % c) * (HALF_WORD % c) + (h.lo % c)) % c

\* int_equals( *key, entry.key): both ints arrive as int* and are dereferenced
int_equals(i1, i2) == Load(i1) = Load(i2)

\* copy_int(key, &entry.key): the int arrives as int* and is dereferenced;
\* the result is what is written to *output
copy_int(i) == Load(i)

\* ------------------------------------------------------- vector (bucket)
NULL == [present |-> FALSE, entries |-> <<>>]
new_entry_vector == [present |-> TRUE, entries |-> <<>>]
push(vec, entry) == [vec EXCEPT !.entries = Append(@, entry)]
vector_get(vec, i) == [ok |-> i < Len(vec.entries),
                       entry |-> IF i < Len(vec.entries)
                                 THEN vec.entries[i + 1]
                                 ELSE [key |-> 0, value |-> 0, id |-> 0]]

\* delete(vector) releases the vector's storage and destroys no entry
vector_delete(vec) == NULL

\* ---------------------------------------------------- allocated resources
\* the table struct, the bucket array of generation gen (the number of
\* rehashes before it was allocated) and the vector of one of its slots
TableRes == [kind |-> "hashmap", gen |-> 0, index |-> 0]
ArrayRes(gen) == [kind |-> "buckets", gen |-> gen, index |-> 0]
VectorRes(gen, b) == [kind |-> "vector", gen |-> gen, index |-> b]

\* the vectors of the present slots of a bucket array, in index order
PresentVectors(bk, cap, gen) ==
  LET idx == SelectSeq([i \in 1..cap |-> i - 1], LAMBDA b : bk[b] # NULL)
  IN [i \in 1..Len(idx) |-> VectorRes(gen, idx[i])]

\* hashmap_resize releases the old bucket sequences and the old bucket array
ResizeFrees(bk, cap, gen) == PresentVectors(bk, cap, gen) \o <<ArrayRes(gen)>>

\* ------------------------------------------------------------ new_hashmap
new_hashmap(cap) == [b \in 0..(cap - 1) |-> NULL]

\* ---------------------------------------------------------- hashmap_resize
\* variant: the rehash keeps the number of buckets
NewCapacities_same(cap) == {cap}

NewCapacities(cap) == {2 * cap, 2 * cap + 1}

\* every entry of the old bucket array, bucket by bucket, in bucket order
RECURSIVE Flatten(_, _, _)
Flatten(bk, lo, hi) ==
  IF lo >= hi THEN <<>>
  ELSE IF hi = lo + 1 THEN bk[lo].entries
  ELSE LET mid == (lo + hi) \div 2
       IN Flatten(bk, lo, mid) \o Flatten(bk, mid, hi)

\* every old entry is re-hashed against the new capacity and appended to its
\* new bucket; a new bucket that receives nothing stays absent
hashmap_resize(bk, cap, newcap) ==
  LET all == Flatten(bk, 0, cap)
  IN [b \in 0..(newcap - 1) |->
        LET es == SelectSeq(all, LAMBDA e : uint32_mod(int_hash(e.key), newcap) = b)
        IN IF es = <<>> THEN NULL ELSE [present |-> TRUE, entries |-> es]]

\* -------------------------------------------------------------------- add
\* variants of the growth test: the threshold truncated to an integer and
\* compared with >=, and the exact threshold compared with >=
NeedsResize_truncated(s, c) == s >= (LOAD_FACTOR_NUM * c) \div LOAD_FACTOR_DEN

NeedsResize_inclusive(s, c) == LOAD_FACTOR_DEN * s >= LOAD_FACTOR_NUM * c

\* variant: the load factor is left out of the growth test
NeedsResize_full(s, c) == s > c

\* hashmap.h:108  size > capacity * LOAD_FACTOR  (exact in double arithmetic)
NeedsResize(s, c) == LOAD_FACTOR_DEN * s > LOAD_FACTOR_NUM * c

\* hashmap.h:113-114, evaluated after the resize of lines 108-110
BucketIndex(hash, capBefore, capNow) == uint32_mod(hash, capNow)

\* variant: a fresh vector is installed even when the bucket is present
BucketForPush_always_new(vec) == new_entry_vector

\* hashmap.h:115-118
BucketForPush(vec) == IF vec = NULL THEN new_entry_vector ELSE vec

\* hashmap.h:122-124
MakeEntry(key, value, id) ==
  [key |-> copy_int(key), value |-> copy_int(value), id |-> id]

\* variant: an entry whose key int_equals accepts is replaced, not kept
PushEntry_upsert(vec, entry) ==
  LET hits == {i \in 1..Len(vec.entries) :
                 int_equals(entry.key, vec.entries[i].key)}
  IN IF hits = {} THEN push(vec, entry)
     ELSE [vec EXCEPT !.entries =
             [i \in 1..Len(vec.entries) |->
                IF i \in hits THEN entry ELSE vec.entries[i]]]

\* hashmap.h:125: the entry is pushed without a search for an equal key
PushEntry(vec, entry) == push(vec, entry)

\* variant: the increment of size is missing
SizeInc_missing(s) == s

\* hashmap.h:126
SizeInc(s) == s + 1

Add(key, value, limit) ==
  /\ live
  /\ Len(log) < limit
  /\ \E newcap \in NewCapacities(capacity) :
       LET grow == NeedsResize(size, capacity)
           cap1 == IF grow THEN newcap ELSE capacity
           bk1 == IF grow THEN hashmap_resize(buckets, capacity, newcap)
                  ELSE buckets
           hash == int_hash(key)
           bucket == BucketIndex(hash, capacity, cap1)
           vec == BucketForPush(bk1[bucket])
           entry == MakeEntry(key, value, Len(log) + 1)
       IN /\ capacity' = cap1
          /\ buckets' = [bk1 EXCEPT ![bucket] = PushEntry(vec, entry)]
          /\ size' = SizeInc(size)
          /\ resizes' = IF grow THEN resizes + 1 ELSE resizes
          /\ log' = Append(log, [key |-> key, value |-> value])
          /\ keyDestroys' = Append(keyDestroys, 0)
          /\ valDestroys' = Append(valDestroys, 0)
          /\ frees' = IF grow THEN frees \o ResizeFrees(buckets, capacity, resizes)
                      ELSE frees
          /\ allocs' = allocs \cup {ArrayRes(resizes')}
                          \cup {VectorRes(resizes', b) :
                                  b \in {c \in 0..(cap1 - 1) : buckets'[c] # NULL}}
          /\ last' = [op |-> "add", key |-> key, size0 |-> size,
                      cap0 |-> capacity, resizes0 |-> resizes]
  /\ UNCHANGED <<mem, live, found, output, initial_capacity, thr>>

\* -------------------------------------------------------------------- get
\* hashmap.h:141-150: the loop returns at the smallest index i whose entry
\* the vector hands out and whose key int_equals accepts
Scan(vec, key) ==
  LET hits == {i \in 0..(Len(vec.entries) - 1) :
                 /\ vector_get(vec, i).ok
                 /\ int_equals(key, vector_get(vec, i).entry.key)}
  IN IF hits = {} THEN [found |-> FALSE, value |-> 0]
     ELSE LET i == CHOOSE h \in hits : \A g \in hits : h <= g
          IN [found |-> TRUE, value |-> vector_get(vec, i).entry.value]

\* the result of get(hashmap, &key, &output) on a table (cap, bk)
Lookup(bk, cap, key) ==
  LET bucket == bk[uint32_mod(int_hash(key), cap)]
  IN IF bucket = NULL THEN [found |-> FALSE, value |-> 0]
     ELSE Scan(bucket, key)

get(key) == Lookup(buckets, capacity, key)

\* variant: *output is written on the not-found paths too
OutputAfterGet_always_written(r, out) == r.value

\* hashmap.h:147 writes *output on the found path only (lines 137, 152 return
\* without touching it)
OutputAfterGet(r, out) == IF r.found THEN r.value ELSE out

Get(key) ==
  /\ live
  /\ LET r == get(key)
     IN /\ found' = r.found
        /\ output' = OutputAfterGet(r, output)
  /\ last' = [op |-> "get", key |-> key, size0 |-> size,
              cap0 |-> capacity, resizes0 |-> resizes]
  /\ UNCHANGED <<mem, live, size, capacity, buckets, log, resizes,
                 keyDestroys, valDestroys, initial_capacity, allocs, frees,
                 thr>>

\* ----------------------------------------------------------------- delete
\* hashmap.h:157-161 releases each present vector; the vector releases its
\* storage only, and delete_..._entry (hashmap.h:84-88) is never called
EntryDestroys(counts, bk, cap) == counts

\* variant: kfree(hashmap->buckets) is missing
DeleteFrees_leak_array(bk, cap, gen) ==
  PresentVectors(bk, cap, gen) \o <<TableRes>>

\* hashmap.h:157-163: delete of every non-NULL bucket in index order, then
\* kfree(hashmap->buckets), then kfree(hashmap)
DeleteFrees(bk, cap, gen) ==
  PresentVectors(bk, cap, gen) \o <<ArrayRes(gen), TableRes>>

Delete ==
  /\ live
  /\ live' = FALSE
  /\ frees' = frees \o DeleteFrees(buckets, capacity, resizes)
  /\ keyDestroys' = EntryDestroys(keyDestroys, buckets, capacity)
  /\ valDestroys' = EntryDestroys(valDestroys, buckets, capacity)
  /\ buckets' = [b \in 0..(capacity - 1) |->
                   IF buckets[b] # NULL THEN vector_delete(buckets[b])
                   ELSE buckets[b]]
  /\ last' = [op |-> "delete", key |-> 0, size0 |-> size,
              cap0 |-> capacity, resizes0 |-> resizes]
  /\ UNCHANGED <<mem, size, capacity, found, output, log, resizes,
                 initial_capacity, allocs, thr>>

\* --------------------------------------------------------- specifications
\* two execution contexts; locked tells whether the callers hold one
\* per-table lock across each whole call, lock is its holder (0: free)
Threads == {1, 2}

IdleThreads(locked) ==
  [locked |-> locked, lock |-> 0,
   pc |-> [t \in Threads |-> "idle"],
   key |-> [t \in Threads |-> 0],
   value |-> [t \in Threads |-> 0],
   id |-> [t \in Threads |-> 0],
   bucket |-> [t \in Threads |-> 0],
   isnull |-> [t \in Threads |-> FALSE],
   tmp |-> [t \in Threads |-> 0]]

InitTable(caps) ==
  /\ mem \in Mems
  /\ live = TRUE
  /\ size = 0
  /\ capacity \in caps
  /\ buckets = new_hashmap(capacity)
  /\ found = FALSE
  /\ output = 0
  /\ log = <<>>
  /\ resizes = 0
  /\ keyDestroys = <<>>
  /\ valDestroys = <<>>
  /\ initial_capacity = capacity
  /\ allocs = {TableRes, ArrayRes(0)}
  /\ frees = <<>>
  /\ last = [op |-> "new", key |-> 0, size0 |-> 0, cap0 |-> capacity,
             resizes0 |-> 0]

InitWith(caps) == InitTable(caps) /\ thr = IdleThreads(FALSE)

Init == InitWith(InitCaps)

Next ==
  \/ \E key \in Keys, value \in Vals : Add(key, value, MaxAdds)
  \/ \E key \in Keys : Get(key)
  \/ Delete

Spec == Init /\ [][Next]_vars

\* the capacity-4 scenario of the specification (section 8, scenario B)
InitB == InitWith({4})

NextB ==
  \/ \E key \in KeysB, value \in ValsB : Add(key, value, ScenarioAdds)
  \/ \E key \in KeysB : Get(key)
  \/ Delete

SpecB == InitB /\ [][NextB]_vars

\* the default table: new_hashmap with DEFAULT_BUCKET_SIZE buckets
InitDefault == InitWith({DEFAULT_BUCKET_SIZE})

NextDefault ==
  \/ \E key \in KeysDefault, value \in ValsDefault : Add(key, value, DefaultAdds)
  \/ \E key \in KeysDefault : Get(key)
  \/ Delete

SpecDefault == InitDefault /\ [][NextDefault]_vars

\* int keys of both signs
InitNeg == InitWith(InitCaps)

NextNeg ==
  \/ \E key \in KeysNeg, value \in ValsNeg : Add(key, value, NegAdds)
  \/ \E key \in KeysNeg : Get(key)
  \/ Delete

SpecNeg == InitNeg /\ [][NextNeg]_vars

\* ------------------------------------------------- two execution contexts
\* add of hashmap.h:105-127 taken one statement group at a time by each of
\* two contexts. The header has no lock (hashmap.h:105-127 take none); in
\* the runs with thr.locked the callers hold one per-table lock from the
\* call to the return.
LockFree == thr.locked => thr.lock = 0

\* the call: the context enters add with its arguments
CallAdd(t, key, value) ==
  /\ live
  /\ thr.pc[t] = "idle"
  /\ Len(log) < ConcAdds
  /\ LockFree
  /\ thr' = [thr EXCEPT !.lock = IF thr.locked THEN t ELSE @,
                        !.pc[t] = "check",
                        !.key[t] = key,
                        !.value[t] = value,
                        !.id[t] = Len(log) + 1]
  /\ log' = Append(log, [key |-> key, value |-> value])
  /\ keyDestroys' = Append(keyDestroys, 0)
  /\ valDestroys' = Append(valDestroys, 0)
  /\ UNCHANGED <<mem, live, size, capacity, buckets, found, output, resizes,
                 initial_capacity, allocs, frees, last>>

\* hashmap.h:108-110: the growth test and the rehash
StepCheck(t) ==
  /\ thr.pc[t] = "check"
  /\ \E newcap \in NewCapacities(capacity) :
       LET grow == NeedsResize(size, capacity)
       IN /\ capacity' = IF grow THEN newcap ELSE capacity
          /\ buckets' = IF grow THEN hashmap_resize(buckets, capacity, newcap)
                        ELSE buckets
          /\ resizes' = IF grow THEN resizes + 1 ELSE resizes
          /\ frees' = IF grow THEN frees \o ResizeFrees(buckets, capacity, resizes)
                      ELSE frees
          /\ allocs' = allocs \cup {ArrayRes(resizes')}
                          \cup {VectorRes(resizes', b) :
                                  b \in {c \in 0..(capacity' - 1) :
                                           buckets'[c] # NULL}}
  /\ thr' = [thr EXCEPT !.pc[t] = "index", !.tmp[t] = size]
  /\ UNCHANGED <<mem, live, size, found, output, log, keyDestroys,
                 valDestroys, initial_capacity, last>>

\* hashmap.h:113-115: the hash, the bucket index and the NULL test
StepIndex(t) ==
  /\ thr.pc[t] = "index"
  /\ LET bucket == BucketIndex(int_hash(thr.key[t]), capacity, capacity)
     IN thr' = [thr EXCEPT !.pc[t] = "create",
                           !.bucket[t] = bucket,
                           !.isnull[t] = (buckets[bucket] = NULL)]
  /\ UNCHANGED <<mem, live, size, capacity, buckets, found, output, log,
                 resizes, keyDestroys, valDestroys, initial_capacity, allocs,
                 frees, last>>

\* hashmap.h:116-117: the bucket that tested NULL gets a new vector
StepCreate(t) ==
  /\ thr.pc[t] = "create"
  /\ buckets' = IF thr.isnull[t]
                THEN [buckets EXCEPT ![thr.bucket[t]] = new_entry_vector]
                ELSE buckets
  /\ allocs' = IF thr.isnull[t]
               THEN allocs \cup {VectorRes(resizes, thr.bucket[t])}
               ELSE allocs
  /\ thr' = [thr EXCEPT !.pc[t] = "push"]
  /\ UNCHANGED <<mem, live, size, capacity, found, output, log, resizes,
                 keyDestroys, valDestroys, initial_capacity, frees, last>>

\* hashmap.h:120-125: the entry is built and pushed on buckets[bucket]; a
\* slot that another context's rehash left NULL stops the context there
StepPush(t) ==
  /\ thr.pc[t] = "push"
  /\ LET vec == buckets[thr.bucket[t]]
         entry == MakeEntry(thr.key[t], thr.value[t], thr.id[t])
     IN IF vec = NULL
        THEN /\ thr' = [thr EXCEPT !.pc[t] = "fault"]
             /\ UNCHANGED buckets
        ELSE /\ thr' = [thr EXCEPT !.pc[t] = "load"]
             /\ buckets' = [buckets EXCEPT ![thr.bucket[t]] = PushEntry(vec, entry)]
  /\ UNCHANGED <<mem, live, size, capacity, found, output, log, resizes,
                 keyDestroys, valDestroys, initial_capacity, allocs, frees,
                 last>>

\* hashmap.h:126: size++ reads the field ...
StepLoad(t) ==
  /\ thr.pc[t] = "load"
  /\ thr' = [thr EXCEPT !.pc[t] = "store", !.tmp[t] = size]
  /\ UNCHANGED <<mem, live, size, capacity, buckets, found, output, log,
                 resizes, keyDestroys, valDestroys, initial_capacity, allocs,
                 frees, last>>

\* ... and writes it back one larger
StepStore(t) ==
  /\ thr.pc[t] = "store"
  /\ size' = SizeInc(thr.tmp[t])
  /\ thr' = [thr EXCEPT !.pc[t] = "return"]
  /\ UNCHANGED <<mem, live, capacity, buckets, found, output, log, resizes,
                 keyDestroys, valDestroys, initial_capacity, allocs, frees,
                 last>>

\* hashmap.h:127: add returns to its caller, which drops the lock it holds
StepReturn(t) ==
  /\ thr.pc[t] = "return"
  /\ thr' = [thr EXCEPT !.pc[t] = "idle",
                        !.lock = IF @ = t THEN 0 ELSE @]
  /\ last' = [op |-> "add", key |-> thr.key[t], size0 |-> thr.tmp[t],
              cap0 |-> capacity, resizes0 |-> resizes]
  /\ UNCHANGED <<mem, live, size, capacity, buckets, found, output, log,
                 resizes, keyDestroys, valDestroys, initial_capacity, allocs,
                 frees>>

\* get called by a context that is not inside add
ConcGet(t, key) ==
  /\ thr.pc[t] = "idle"
  /\ LockFree
  /\ Get(key)

InitConc ==
  /\ InitTable({1})
  /\ thr \in {IdleThreads(locked) : locked \in BOOLEAN}

NextConc ==
  \/ \E t \in Threads, key \in KeysConc, value \in ValsConc : CallAdd(t, key, value)
  \/ \E t \in Threads : StepCheck(t)
  \/ \E t \in Threads : StepIndex(t)
  \/ \E t \in Threads : StepCreate(t)
  \/ \E t \in Threads : StepPush(t)
  \/ \E t \in Threads : StepLoad(t)
  \/ \E t \in Threads : StepStore(t)
  \/ \E t \in Threads : StepReturn(t)
  \/ \E t \in Threads, key \in KeysConc : ConcGet(t, key)

SpecConc == InitConc /\ [][NextConc]_vars

\* ------------------------------------------------------------- helpers
\* every entry stored in the table, in bucket order
Stored == Flatten(buckets, 0, capacity)

StoredIds(bk, cap) ==
  LET all == Flatten(bk, 0, cap) IN {all[i].id : i \in 1..Len(all)}

\* the keys a caller may look up
QueryKeys == Keys \cup KeysB \cup KeysDefault \cup KeysNeg

LogKeys == {log[i].key : i \in 1..Len(log)}

\* index in log of the first add of key k
FirstAdd(k) ==
  CHOOSE i \in 1..Len(log) :
    /\ log[i].key = k
    /\ \A j \in 1..(i - 1) : log[j].key # k

\* ---------------------------------------------------------------- claims

\* C1: for every add(k, v) performed on a live table, a later get(k) returns
\* (true, v), provided no add of a key equal to k was performed after it.
C1_RoundTrip ==
  live =>
    \A i \in 1..Len(log) :
      (\A j \in (i + 1)..Len(log) : log[j].key # log[i].key)
        => get(log[i].key) = [found |-> TRUE, value |-> log[i].value]

\* C2: in every live state get(k) returns not-found for every key k that was
\* never added, whether its bucket is absent or holds only other keys.
C2_Absence ==
  live => \A k \in QueryKeys : (k \notin LogKeys) => ~get(k).found

\* C3: size equals the number of add calls made, and every add increases
\* size by exactly one, whatever the keys and however many rehashes happened.
C3_SizeCountsAdds ==
  live => /\ size = Len(log)
          /\ (last.op = "add" => size = last.size0 + 1)

C3_Witness ==
  /\ live
  /\ last.op = "add"
  /\ Len(log) >= 3
  /\ resizes >= 2
  /\ Cardinality(LogKeys) = 2

\* C4: a growth rehash neither loses nor duplicates an entry (the entries
\* stored and size are the same before and after it), and every key for
\* which get returned (true, v) before the growth returns (true, v) after it.
\* The step that grows also appends the new entry, hence the one extra id.
C4_GrowthPreservesContents ==
  [][(live /\ resizes' = resizes + 1) =>
       /\ Len(Flatten(buckets', 0, capacity')) = Len(Stored) + 1
       /\ StoredIds(buckets', capacity') =
            StoredIds(buckets, capacity) \cup {Len(log')}
       /\ size' = size + 1
       /\ \A k \in QueryKeys :
            get(k).found => Lookup(buckets', capacity', k) = get(k)]_vars

\* C5: after every public operation each stored entry resides in the bucket
\* whose index is hash(entry.key) mod the current capacity.
C5_Placement ==
  live =>
    \A b \in 0..(capacity - 1) :
      \A i \in 1..Len(buckets[b].entries) :
        uint32_mod(int_hash(buckets[b].entries[i].key), capacity) = b

\* C6: an add of a key equal to a stored one keeps both entries (size grows
\* by one each time), and get(k) returns the value of the earliest-inserted
\* entry whose key equals k, also after growth rehashes.
C6_FirstInsertedWins ==
  live =>
    /\ size = Len(log)
    /\ StoredIds(buckets, capacity) = 1..Len(log)
    /\ \A k \in LogKeys :
         get(k) = [found |-> TRUE, value |-> log[FirstAdd(k)].value]

\* C7: an add performs a growth rehash if and only if size > capacity *
\* LOAD_FACTOR when it is called; the rehash precedes the computation of the
\* new key's bucket index and the storing of the new entry; with the default
\* capacity 127 the first growth happens on the add made when size is 96.
C7_GrowthTrigger ==
  (live /\ last.op = "add") =>
    /\ resizes \in {last.resizes0, last.resizes0 + 1}
    /\ (resizes = last.resizes0 + 1)
         <=> (LOAD_FACTOR_DEN * last.size0 > LOAD_FACTOR_NUM * last.cap0)
    /\ (capacity # last.cap0) <=> (resizes = last.resizes0 + 1)
    /\ LET vec == buckets[uint32_mod(int_hash(last.key), capacity)]
       IN /\ vec.present
          /\ Len(vec.entries) > 0
          /\ vec.entries[Len(vec.entries)].id = Len(log)
    /\ (initial_capacity = DEFAULT_BUCKET_SIZE
          => ((resizes >= 1) <=> (Len(log) >= 97)))

C7_Witness ==
  /\ live
  /\ last.op = "add"
  /\ initial_capacity = DEFAULT_BUCKET_SIZE
  /\ last.size0 = 96
  /\ last.cap0 = DEFAULT_BUCKET_SIZE
  /\ resizes = 1
  /\ capacity > DEFAULT_BUCKET_SIZE
  /\ uint32_mod(int_hash(last.key), capacity) # uint32_mod(int_hash(last.key), last.cap0)

\* C8 as stated: on a table of capacity 4 that holds 3 entries, the add of a
\* 4th distinct key triggers exactly one growth rehash, after which capacity
\* is larger than 4 and all 4 keys are retrievable.
C8_ScenarioB_AsStated ==
  (/\ live
   /\ last.op = "add"
   /\ last.cap0 = 4
   /\ last.size0 = 3
   /\ Cardinality(LogKeys) = 4) =>
    /\ resizes = last.resizes0 + 1
    /\ capacity > 4
    /\ \A i \in 1..Len(log) :
         get(log[i].key) = [found |-> TRUE, value |-> log[i].value]

\* C8 amended: on a table of capacity 4 that holds 3 entries the add of a 4th
\* key triggers no growth (3 > 4 * 0.75 is false): capacity stays 4 and the
\* table stores 4 entries; the add made when size is 4 triggers exactly one
\* growth rehash before its entry is stored, after which capacity is larger
\* than 4 and the table stores 5 entries.  In general an add grows the table
\* exactly when size exceeds capacity * LOAD_FACTOR.
C8_ScenarioB ==
  (live /\ last.op = "add") =>
    /\ (last.cap0 = 4 /\ last.size0 = 3) =>
         /\ resizes = last.resizes0
         /\ capacity = 4
         /\ size = 4
         /\ StoredIds(buckets, capacity) = 1..4
    /\ (last.cap0 = 4 /\ last.size0 = 4) =>
         /\ resizes = last.resizes0 + 1
         /\ capacity > 4
         /\ size = 5
         /\ StoredIds(buckets, capacity) = 1..5
    /\ (resizes = last.resizes0 + 1)
         <=> (last.size0 * LOAD_FACTOR_DEN > last.cap0 * LOAD_FACTOR_NUM)

C8_Witness ==
  /\ live
  /\ last.op = "add"
  /\ last.cap0 = 4
  /\ last.size0 = 4
  /\ resizes = 1
  /\ capacity > 4
  /\ Cardinality({log[i].key : i \in 1..4}) = 4

\* C9: after delete(table), destroy has been invoked exactly once on the key
\* and exactly once on the value of every entry an add copied into the table.
C9_DestroyExactlyOnce ==
  (~live) =>
    \A i \in 1..Len(log) : keyDestroys[i] = 1 /\ valDestroys[i] = 1

\* C10: after new, add and get, size equals the sum over the present buckets
\* of the number of entries in the bucket's sequence.
C10_SizeEqualsStored ==
  live =>
    /\ size = Len(Stored)
    /\ \A b \in 0..(capacity - 1) :
         (~buckets[b].present) => buckets[b].entries = <<>>

C10_Witness ==
  /\ live
  /\ last.op = "get"
  /\ size >= 3
  /\ resizes >= 1
  /\ Cardinality({b \in 0..(capacity - 1) : buckets[b].present}) >= 2
  /\ \E b \in 0..(capacity - 1) : Len(buckets[b].entries) >= 2

\* C11 as stated: in every reachable state no bucket sequence contains two
\* entries whose keys satisfy equals.  The formula asks less: no bucket holds
\* two entries that were added with the same key and whose stored keys
\* satisfy int_equals.
C11_UniqueKeysInBucket ==
  live =>
    \A b \in 0..(capacity - 1) :
      \A i, j \in 1..Len(buckets[b].entries) :
        LET ei == buckets[b].entries[i]
            ej == buckets[b].entries[j]
        IN (i < j) =>
             ~(/\ log[ei.id].key = log[ej.id].key
               /\ int_equals(ei.key, ej.key))

\* C11 amended: keys need not be unique within a bucket.  add appends
\* without searching for an equal key, so for every key the table stores as
\* many entries as there were adds of that key, each add's entry exactly
\* once.
C11_DuplicatesAccumulate ==
  live =>
    /\ Len(Stored) = Len(log)
    /\ \A k \in LogKeys :
         Cardinality({i \in 1..Len(Stored) : log[Stored[i].id].key = k})
           = Cardinality({i \in 1..Len(log) : log[i].key = k})

C11_Witness ==
  /\ live
  /\ last.op = "add"
  /\ \E b \in 0..(capacity - 1) :
       \E i, j \in 1..Len(buckets[b].entries) :
         /\ i < j
         /\ log[buckets[b].entries[i].id].key = log[buckets[b].entries[j].id].key
         /\ int_equals(buckets[b].entries[i].key, buckets[b].entries[j].key)

\* C12: in every live state capacity > 0; no operation decreases capacity: a
\* growth rehash strictly increases it and every other step leaves it
\* unchanged.
C12_CapacityPositiveMonotone ==
  [][/\ (live => capacity > 0)
     /\ (live' => capacity' > 0)
     /\ capacity' >= capacity
     /\ (resizes' # resizes => capacity' > capacity)
     /\ (resizes' = resizes => capacity' = capacity)]_vars

C12_Witness ==
  /\ live
  /\ last.op = "get"
  /\ resizes >= 2
  /\ capacity > 2 * initial_capacity
  /\ size >= 3

Releases(fs, r) == Cardinality({i \in 1..Len(fs) : fs[i] = r})

C14_Lifecycle ==
  [][/\ (~live) => (~live' /\ frees' = frees)
     /\ \A r \in allocs' : Releases(frees', r) <= 1
     /\ \A i \in 1..Len(frees') : frees'[i] \in allocs'
     /\ live' =>
          /\ Releases(frees', TableRes) = 0
          /\ Releases(frees', ArrayRes(resizes')) = 0
          /\ \A b \in 0..(capacity' - 1) : Releases(frees', VectorRes(resizes', b)) = 0
     /\ (live /\ ~live') =>
          /\ \A r \in allocs' : Releases(frees', r) = 1
          /\ \A b \in 0..(capacity - 1) :
               buckets[b].present => Releases(frees', VectorRes(resizes, b)) = 1
          /\ Len(frees') >= 2
          /\ frees'[Len(frees')] = TableRes
          /\ frees'[Len(frees') - 1] = ArrayRes(resizes)
          /\ \A i \in (Len(frees) + 1)..(Len(frees') - 2) :
               frees'[i].kind = "vector"]_vars

C14_Witness ==
  /\ ~live
  /\ last.op = "delete"
  /\ resizes >= 1
  /\ Len(frees) >= 6
  /\ frees[Len(frees) - 2].kind = "vector"
  /\ frees[Len(frees) - 3].kind = "vector"

\* C15: when add(k, v) is called with size <= capacity * LOAD_FACTOR,
\* capacity is unchanged, only the bucket at index hash(k) mod capacity
\* changes (created empty first if absent): its previous entries keep their
\* order and the entry (k, v) is appended; every other bucket is untouched.
C15_AddFrame ==
  [][(/\ live
      /\ Len(log') = Len(log) + 1
      /\ LOAD_FACTOR_DEN * size <= LOAD_FACTOR_NUM * capacity) =>
       LET k == log'[Len(log')].key
           v == log'[Len(log')].value
           b == uint32_mod(int_hash(k), capacity)
       IN /\ capacity' = capacity
          /\ buckets'[b].present
          /\ buckets'[b].entries =
               Append(buckets[b].entries,
                      [key |-> k, value |-> v, id |-> Len(log')])
          /\ \A c \in 0..(capacity - 1) :
               (c # b) => buckets'[c] = buckets[c]]_vars

\* C16: get leaves size, capacity and every bucket unchanged, for a key that
\* is found and for one that is not; two consecutive gets of the same key
\* return the same result; a get that returns false does not write *output.
C16_GetReadOnly ==
  [][(live /\ last'.op = "get") =>
       /\ size' = size
       /\ capacity' = capacity
       /\ buckets' = buckets
       /\ resizes' = resizes
       /\ allocs' = allocs
       /\ (~found') => output' = output
       /\ (last.op = "get" /\ last.key = last'.key) =>
            /\ found' = found
            /\ found => output' = output
       /\ LET again == Lookup(buckets', capacity', last'.key)
          IN /\ again.found = found'
             /\ again.found => again.value = output']_vars

C16_Witness ==
  /\ live
  /\ last.op = "get"
  /\ ~found
  /\ output # 0
  /\ size >= 1
  /\ ~buckets[uint32_mod(int_hash(last.key), capacity)].present

C18_IntKeyBucket ==
  live =>
    /\ \A k \in QueryKeys :
         /\ uint32_mod(int_hash(k), capacity) \in 0..(capacity - 1)
         /\ (k < 0) =>
              int_hash(k) = [hi |-> HALF_WORD - 1, lo |-> HALF_WORD + k]
    /\ (last.op = "add") =>
         LET vec == buckets[uint32_mod(int_hash(last.key), capacity)]
         IN /\ vec.present
            /\ Len(vec.entries) > 0
            /\ vec.entries[Len(vec.entries)].id = Len(log)
    /\ \A i \in 1..Len(log) :
         (log[i].key < 0) => get(log[i].key).found

\* every context is outside add: the table is at rest
Quiescent == \A t \in Threads : thr.pc[t] = "idle"

\* an added entry is stored nowhere, or size is not the number of entries
EntryLostOrSizeOff ==
  \/ StoredIds(buckets, capacity) # 1..Len(log)
  \/ size # Len(Stored)

\* C19: external mutual exclusion is required and sufficient. Without a
\* lock the steps of two adds interleave into a state at rest in which an
\* entry is lost or size differs from the number of stored entries
\* (C19_RaceState is such a state); with one per-table lock held across each
\* whole call no such state is reachable, and at rest size counts the stored
\* entries and every entry lies in bucket hash(its key) mod capacity.
C19_LockSufficient ==
  (live /\ thr.locked /\ Quiescent) =>
    /\ ~EntryLostOrSizeOff
    /\ \A b \in 0..(capacity - 1) :
         \A i \in 1..Len(buckets[b].entries) :
           BucketIndex(int_hash(buckets[b].entries[i].key), capacity, capacity) = b

\* the unlocked half of C19: two interleaved adds have returned and an
\* entry is lost or size is off
C19_RaceState ==
  /\ live /\ ~thr.locked /\ Quiescent
  /\ Len(log) >= 2
  /\ EntryLostOrSizeOff

\* the locked half of C19 without the placement part
C19_LockedSizeHolds ==
  (live /\ thr.locked /\ Quiescent) => ~EntryLostOrSizeOff

====
